---- MODULE Spec2Model ----
(***************************************************************************)
(* json-osi: evidence-driven schema inference.                             *)
(*                                                                         *)
(* The model covers the evidence lattice U (inference.rs, inference/*.rs), *)
(* observe_value, join, the in-place normalize with emit_schema, the       *)
(* normalized-IR builder normalize_to_norm_consume (norm_ir.rs), and the   *)
(* two ingestion drivers of cli.rs: the sequential Inference fold and the  *)
(* parallel map/reduce over U::empty().                                    *)
(*                                                                         *)
(* Encoding.                                                               *)
(*  - A Rust String is a sequence of character codes (ASCII), so that      *)
(*    prefixes, lengths, character classes and byte order are computed.    *)
(*  - Option<T> is a sequence of length 0 (None) or 1 (Some).              *)
(*  - An f64 is an integer count of halves: 2 is 1.0, 3 is 1.5.  serde's   *)
(*    Number representation (i64 / u64 / f64) is carried beside it.        *)
(*  - BTreeSet is a set, BTreeMap a function on its key set, Vec a         *)
(*    sequence.                                                            *)
(***************************************************************************)
EXTENDS Integers, Sequences, FiniteSets, Bags, TLC

VARIABLES
    policy,   \* the two string-policy flags of the build (ENABLE_STRING_ENUMS, ENABLE_GREX)
    inf,      \* Inference.state: the sequential driver's accumulator
    pool,     \* the parallel driver's partial results, each with the documents it covers
    fed,      \* the values handed to Inference::observe_value so far, in order
    results   \* what each call of Inference::solve returned, with the number of values fed before it

vars == <<policy, inf, pool, fed, results>>

\* ------------------------------- Policy ---------------------------------- \*

LCP_MIN_FOR_PATTERN == 3
STRING_ENUM_MAX == 8
STRING_ENUM_MAX_LEN == 16
KEEP_NUM_ATOMS_OUTSIDE_INTERVAL == FALSE
MAX_STR_LITS == 64
MAX_NUM_LITS == 64
GREX_MIN_SAMPLES == 3
GREX_MAX_PATTERN_LEN == 512
GREX_MAX_ALTS == 64

\* ------------------------------ Option / Vec ----------------------------- \*

None == <<>>
Some(x) == <<x>>
IsSome(o) == Len(o) = 1
IsNone(o) == Len(o) = 0
Unwrap(o) == o[1]

Min2(a, b) == IF a <= b THEN a ELSE b
Max2(a, b) == IF a >= b THEN a ELSE b

\* Vec::get(i).copied().unwrap_or(d), with the 0-based index i
GetOr(v, i, d) == IF i + 1 <= Len(v) THEN v[i + 1] ELSE d

\* ------------------------------- Strings --------------------------------- \*

\* str::starts_with
starts_with(s, p) == Len(p) <= Len(s) /\ SubSeq(s, 1, Len(p)) = p

\* byte order of two strings (String's Ord), strict
RECURSIVE StrLess(_, _)
StrLess(s, t) ==
    IF Len(t) = 0 THEN FALSE
    ELSE IF Len(s) = 0 THEN TRUE
    ELSE IF s[1] # t[1] THEN s[1] < t[1]
    ELSE StrLess(Tail(s), Tail(t))

\* the elements of a BTreeSet<String> in iteration (ascending) order
RECURSIVE SortedStrs(_)
SortedStrs(S) ==
    IF S = {} THEN <<>>
    ELSE LET x == CHOOSE y \in S : \A z \in S : ~StrLess(z, y)
         IN  <<x>> \o SortedStrs(S \ {x})

looks_like_uri(s) ==
    \/ starts_with(s, <<104, 116, 116, 112, 58, 47, 47>>)
    \/ starts_with(s, <<104, 116, 116, 112, 115, 58, 47, 47>>)
    \/ starts_with(s, <<109, 97, 105, 108, 116, 111, 58>>)
    \/ starts_with(s, <<116, 101, 108, 58>>)

is_ascii_alphanumeric(c) ==
    \/ c \in 48..57
    \/ c \in 65..90
    \/ c \in 97..122

looks_humanish(s) ==
    /\ Len(s) <= STRING_ENUM_MAX_LEN
    /\ \A i \in 1..Len(s) :
          is_ascii_alphanumeric(s[i]) \/ s[i] = 32 \/ s[i] = 45 \/ s[i] = 95

\* the longest common prefix of two strings, as the zip loop computes it
RECURSIVE CommonPrefix(_, _)
CommonPrefix(x, y) ==
    IF Len(x) = 0 \/ Len(y) = 0 THEN <<>>
    ELSE IF x[1] = y[1] THEN <<x[1]>> \o CommonPrefix(Tail(x), Tail(y))
    ELSE <<>>

lcp_join(a, b) ==
    IF IsSome(a) /\ IsSome(b)
    THEN LET out == CommonPrefix(Unwrap(a), Unwrap(b))
         IN  IF Len(out) = 0 THEN None ELSE Some(out)
    ELSE IF IsSome(a) THEN a
    ELSE IF IsSome(b) THEN b
    ELSE None

\* lcp_set over the ascending iteration of the literal set
RECURSIVE LcpFold(_, _)
LcpFold(acc, rest) ==
    IF Len(rest) = 0 THEN Some(acc)
    ELSE LET j == lcp_join(Some(acc), Some(Head(rest)))
             nxt == IF IsSome(j) THEN Unwrap(j) ELSE <<>>
         IN  IF Len(nxt) = 0 THEN Some(<<>>) ELSE LcpFold(nxt, Tail(rest))

lcp_set(lits) ==
    LET it == SortedStrs(lits)
    IN  IF Len(it) = 0 THEN None ELSE LcpFold(Head(it), Tail(it))

RegexMeta == {46, 43, 42, 63, 94, 36, 40, 41, 91, 93, 123, 125, 124, 92}

RECURSIVE escape_regex(_)
escape_regex(s) ==
    IF Len(s) = 0 THEN <<>>
    ELSE (IF s[1] \in RegexMeta THEN <<92, s[1]>> ELSE <<s[1]>>)
         \o escape_regex(Tail(s))

\* ------------------------------ State (CNF) ------------------------------ \*

U_empty ==
    [nullable |-> FALSE, has_bool |-> FALSE,
     num |-> None, str_ |-> None, arr |-> None, obj |-> None]

is_exact_null(u) ==
    /\ u.nullable
    /\ ~u.has_bool
    /\ IsNone(u.num)
    /\ IsNone(u.str_)
    /\ IsNone(u.arr)
    /\ IsNone(u.obj)

missing_nullable == [U_empty EXCEPT !.nullable = TRUE]

\* ------------------------------- Join ------------------------------------ \*

\* join_num keeping the left operand's minimum
join_num_LeftMin(a, b) ==
    LET un == a.lits_f64 \cup b.lits_f64
    IN  [lits_f64 |-> IF Cardinality(un) > MAX_NUM_LITS THEN {} ELSE un,
         min_f64 |-> a.min_f64,
         max_f64 |-> Max2(a.max_f64, b.max_f64),
         saw_int |-> a.saw_int \/ b.saw_int,
         saw_uint |-> a.saw_uint \/ b.saw_uint,
         saw_float |-> a.saw_float \/ b.saw_float]

join_num(a, b) ==
    LET un == a.lits_f64 \cup b.lits_f64
    IN  [lits_f64 |-> IF Cardinality(un) > MAX_NUM_LITS THEN {} ELSE un,
         min_f64 |-> Min2(a.min_f64, b.min_f64),
         max_f64 |-> Max2(a.max_f64, b.max_f64),
         saw_int |-> a.saw_int \/ b.saw_int,
         saw_uint |-> a.saw_uint \/ b.saw_uint,
         saw_float |-> a.saw_float \/ b.saw_float]

\* join_str with is_uri recomputed from the literals that survive the cap
join_str_UriFromLits(a, b) ==
    LET un == a.lits \cup b.lits
        out == IF Cardinality(un) > MAX_STR_LITS THEN {} ELSE un
    IN  [lits |-> out,
         lcp |-> lcp_join(a.lcp, b.lcp),
         is_uri |-> \A s \in out : looks_like_uri(s),
         pattern_synth |-> None,
         grex_cache_key |-> None]

\* join_str without the MAX_STR_LITS cap
join_str_NoCap(a, b) ==
    [lits |-> a.lits \cup b.lits,
     lcp |-> lcp_join(a.lcp, b.lcp),
     is_uri |-> a.is_uri /\ b.is_uri,
     pattern_synth |-> None,
     grex_cache_key |-> None]

\* StrC carries the fields of both declarations of the struct: lcp
\* (inference.rs) and pattern_synth / grex_cache_key (inference/str.rs).
\* StrC::default() leaves the two grex fields None, and no join sets them.
join_str(a, b) ==
    LET un == a.lits \cup b.lits
    IN  [lits |-> IF Cardinality(un) > MAX_STR_LITS THEN {} ELSE un,
         lcp |-> lcp_join(a.lcp, b.lcp),
         is_uri |-> a.is_uri /\ b.is_uri,
         pattern_synth |-> None,
         grex_cache_key |-> None]

\* the match on (a.num, b.num) without its (None, Some(y)) arm
join_num_arm_NoRight(x, y) ==
    IF IsSome(x) /\ IsSome(y) THEN Some(join_num(Unwrap(x), Unwrap(y)))
    ELSE IF IsSome(x) THEN x
    ELSE None

\* out.num = match (&a.num, &b.num) { ... }
join_num_arm(x, y) ==
    IF IsSome(x) /\ IsSome(y) THEN Some(join_num(Unwrap(x), Unwrap(y)))
    ELSE IF IsSome(x) THEN x
    ELSE y

\* out.str_ = match (&a.str_, &b.str_) { ... }
join_str_arm(x, y) ==
    IF IsSome(x) /\ IsSome(y) THEN Some(join_str(Unwrap(x), Unwrap(y)))
    ELSE IF IsSome(x) THEN x
    ELSE y

RECURSIVE join(_, _)
RECURSIVE join_arr(_, _)
RECURSIVE join_obj(_, _)

\* join_arr taking the larger present count instead of the sum
join_arr_PresentMax(a, b) ==
    LET n == Max2(Len(a.cols), Len(b.cols))
    IN  [len_min |-> Min2(a.len_min, b.len_min),
         len_max |-> Max2(a.len_max, b.len_max),
         samples |-> a.samples + b.samples,
         item |-> join(a.item, b.item),
         cols |-> [i \in 1..n |->
                     join(GetOr(a.cols, i - 1, missing_nullable),
                          GetOr(b.cols, i - 1, missing_nullable))],
         present |-> [i \in 1..n |->
                     Max2(GetOr(a.present, i - 1, 0), GetOr(b.present, i - 1, 0))],
         non_null |-> [i \in 1..n |->
                     GetOr(a.non_null, i - 1, 0) + GetOr(b.non_null, i - 1, 0)]]

\* join_arr filling a missing column with U::empty() instead of missing_nullable()
join_arr_MissingEmpty(a, b) ==
    LET n == Max2(Len(a.cols), Len(b.cols))
    IN  [len_min |-> Min2(a.len_min, b.len_min),
         len_max |-> Max2(a.len_max, b.len_max),
         samples |-> a.samples + b.samples,
         item |-> join(a.item, b.item),
         cols |-> [i \in 1..n |->
                     join(GetOr(a.cols, i - 1, U_empty),
                          GetOr(b.cols, i - 1, U_empty))],
         present |-> [i \in 1..n |->
                     GetOr(a.present, i - 1, 0) + GetOr(b.present, i - 1, 0)],
         non_null |-> [i \in 1..n |->
                     GetOr(a.non_null, i - 1, 0) + GetOr(b.non_null, i - 1, 0)]]

join_arr(a, b) ==
    LET n == Max2(Len(a.cols), Len(b.cols))
    IN  [len_min |-> Min2(a.len_min, b.len_min),
         len_max |-> Max2(a.len_max, b.len_max),
         samples |-> a.samples + b.samples,
         item |-> join(a.item, b.item),
         cols |-> [i \in 1..n |->
                     join(GetOr(a.cols, i - 1, missing_nullable),
                          GetOr(b.cols, i - 1, missing_nullable))],
         present |-> [i \in 1..n |->
                     GetOr(a.present, i - 1, 0) + GetOr(b.present, i - 1, 0)],
         non_null |-> [i \in 1..n |->
                     GetOr(a.non_null, i - 1, 0) + GetOr(b.non_null, i - 1, 0)]]

join_obj(a, b) ==
    LET ka == DOMAIN a.fields
        kb == DOMAIN b.fields
    IN  [seen_objects |-> a.seen_objects + b.seen_objects,
         fields |-> [k \in ka \cup kb |->
                     IF k \in ka /\ k \in kb
                     THEN [ty |-> join(a.fields[k].ty, b.fields[k].ty),
                           present_in |-> a.fields[k].present_in + b.fields[k].present_in,
                           non_null_in |-> a.fields[k].non_null_in + b.fields[k].non_null_in]
                     ELSE IF k \in ka THEN a.fields[k]
                     ELSE b.fields[k]]]

join(a, b) ==
    [nullable |-> a.nullable \/ b.nullable,
     has_bool |-> a.has_bool \/ b.has_bool,
     num |-> join_num_arm(a.num, b.num),
     str_ |-> join_str_arm(a.str_, b.str_),
     arr |-> IF IsSome(a.arr) /\ IsSome(b.arr)
             THEN Some(join_arr(Unwrap(a.arr), Unwrap(b.arr)))
             ELSE IF IsSome(a.arr) THEN a.arr ELSE b.arr,
     obj |-> IF IsSome(a.obj) /\ IsSome(b.obj)
             THEN Some(join_obj(Unwrap(a.obj), Unwrap(b.obj)))
             ELSE IF IsSome(a.obj) THEN a.obj ELSE b.obj]

\* ------------------------------ Observe ---------------------------------- \*

\* A JSON value is a record tagged by k: "null", "bool", "num" (repr, val),
\* "str" (s), "arr" (xs) or "obj" (m, a function on the key set).
IsNullValue(v) == v.k = "null"

\* The Number arm: as_i64, else as_u64, else as_f64.  When none of the three
\* answers (repr "none") the if-chain falls through and NumC::default() is
\* returned as it is: no literal, min = max = 0.0, no flag.
observe_number(n) ==
    IF n.repr = "none"
    THEN [lits_f64 |-> {}, min_f64 |-> 0, max_f64 |-> 0,
          saw_int |-> FALSE, saw_uint |-> FALSE, saw_float |-> FALSE]
    ELSE [lits_f64 |-> {n.val}, min_f64 |-> n.val, max_f64 |-> n.val,
          saw_int |-> n.repr = "i64",
          saw_uint |-> n.repr = "u64",
          saw_float |-> n.repr = "f64"]

observe_string(s) ==
    [lits |-> {s}, lcp |-> Some(s), is_uri |-> looks_like_uri(s),
     pattern_synth |-> None, grex_cache_key |-> None]

RECURSIVE observe_value(_)
RECURSIVE observe_array(_)
RECURSIVE observe_object(_)
RECURSIVE FoldItem(_, _)

\* for el in xs { item = join(&item, &observe_value(el)); }
\* (the test on nxt makes TLC compute each step before the next)
FoldItem(item, xs) ==
    IF Len(xs) = 0 THEN item
    ELSE LET nxt == join(item, observe_value(Head(xs)))
         IN  IF nxt.nullable \in BOOLEAN THEN FoldItem(nxt, Tail(xs)) ELSE nxt

observe_array(xs) ==
    [U_empty EXCEPT !.arr = Some(
        [len_min |-> Len(xs),
         len_max |-> Len(xs),
         samples |-> 1,
         item |-> FoldItem(U_empty, xs),
         cols |-> [i \in 1..Len(xs) |-> join(U_empty, observe_value(xs[i]))],
         present |-> [i \in 1..Len(xs) |-> 1],
         non_null |-> [i \in 1..Len(xs) |-> IF IsNullValue(xs[i]) THEN 0 ELSE 1]])]

\* observe_object counting a null value in non_null_in
observe_object_CountsNull(m) ==
    [U_empty EXCEPT !.obj = Some(
        [seen_objects |-> 1,
         fields |-> [k \in DOMAIN m |->
                     [ty |-> observe_value(m[k]),
                      present_in |-> 1,
                      non_null_in |-> 1]]])]

observe_object(m) ==
    [U_empty EXCEPT !.obj = Some(
        [seen_objects |-> 1,
         fields |-> [k \in DOMAIN m |->
                     [ty |-> observe_value(m[k]),
                      present_in |-> 1,
                      non_null_in |-> IF IsNullValue(m[k]) THEN 0 ELSE 1]]])]

observe_value(v) ==
    CASE v.k = "null" -> [U_empty EXCEPT !.nullable = TRUE]
      [] v.k = "bool" -> [U_empty EXCEPT !.has_bool = TRUE]
      [] v.k = "num"  -> [U_empty EXCEPT !.num = Some(observe_number(v))]
      [] v.k = "str"  -> [U_empty EXCEPT !.str_ = Some(observe_string(v.s))]
      [] v.k = "arr"  -> observe_array(v.xs)
      [] v.k = "obj"  -> observe_object(v.m)

\* --------------------------- Tuple decision ------------------------------ \*

\* NullPadFrom without the test on non_null: any position present in every
\* sample counts as a null pad
RECURSIVE NullPadFrom_AnyPresent(_, _)
NullPadFrom_AnyPresent(arr, i) ==
    IF i >= Len(arr.cols) THEN FALSE
    ELSE IF GetOr(arr.present, i, 0) = arr.samples THEN TRUE
    ELSE NullPadFrom_AnyPresent(arr, i + 1)

\* Proof 2 of decide_tuple: the loop over 0..cols.len()
RECURSIVE NullPadFrom(_, _)
NullPadFrom(arr, i) ==
    IF i >= Len(arr.cols) THEN FALSE
    ELSE IF GetOr(arr.present, i, 0) = arr.samples /\ GetOr(arr.non_null, i, 0) = 0
         THEN TRUE
    ELSE NullPadFrom(arr, i + 1)

\* decide_tuple without proof 2 (the null pad)
decide_tuple_NoNullPad(arr) ==
    IF arr.samples < 2 THEN FALSE
    ELSE IF Len(arr.cols) = 0 THEN FALSE
    ELSE arr.len_min = arr.len_max /\ arr.len_max > 0

\* decide_tuple without proof 1 (the fixed length)
decide_tuple_NoFixedLen(arr) ==
    IF arr.samples < 2 THEN FALSE
    ELSE IF Len(arr.cols) = 0 THEN FALSE
    ELSE NullPadFrom(arr, 0)

decide_tuple(arr) ==
    IF arr.samples < 2 THEN FALSE
    ELSE IF Len(arr.cols) = 0 THEN FALSE
    ELSE IF arr.len_min = arr.len_max /\ arr.len_max > 0 THEN TRUE
    ELSE NullPadFrom(arr, 0)

\* the loop of tuple_min_items_arr: last_req after visiting i..cols.len()-1
RECURSIVE LastReqFrom(_, _, _)
LastReqFrom(arr, i, last_req) ==
    IF i >= Len(arr.cols) THEN last_req
    ELSE LastReqFrom(arr, i + 1,
                     IF GetOr(arr.present, i, 0) = arr.samples THEN i ELSE last_req)

tuple_min_items_arr(arr) ==
    LET last_req == LastReqFrom(arr, 0, -1)
    IN  IF last_req < 0 THEN 0 ELSE last_req + 1


\* ------------------------- Normalize (in place) -------------------------- \*

\* f64 to i64 with `as`: saturating.  The bounds stand for i64::MIN/MAX,
\* scaled to small integers.
I64_MAX == 1000
I64_MIN == -1000

IsIntegral(x) == x % 2 = 0
CastI64(x) ==
    LET n == IF x >= 0 THEN x \div 2 ELSE -((-x) \div 2)
    IN  IF n > I64_MAX THEN I64_MAX ELSE IF n < I64_MIN THEN I64_MIN ELSE n

\* normalize's number filter with the interval test not negated
normalize_num_KeepInside(num) ==
    [num EXCEPT !.lits_f64 =
        {x \in num.lits_f64 : num.min_f64 <= x /\ x <= num.max_f64}]

normalize_num(num) ==
    [num EXCEPT !.lits_f64 =
        {x \in num.lits_f64 :
            ~(num.min_f64 <= x /\ x <= num.max_f64) /\ KEEP_NUM_ATOMS_OUTSIDE_INTERVAL}]

normalize_str(str_c) ==
    LET lcp == lcp_set(str_c.lits)
        covered == /\ IsSome(lcp)
                   /\ (str_c.is_uri \/ Len(Unwrap(lcp)) >= LCP_MIN_FOR_PATTERN)
                   /\ \A s \in str_c.lits : starts_with(s, Unwrap(lcp))
        lits1 == IF covered THEN {} ELSE str_c.lits
        tiny == /\ Cardinality(lits1) <= STRING_ENUM_MAX
                /\ \A s \in lits1 : Len(s) <= STRING_ENUM_MAX_LEN /\ looks_humanish(s)
    IN  [str_c EXCEPT !.lcp = lcp,
                      !.lits = IF lits1 # {} /\ ~tiny THEN {} ELSE lits1]

RECURSIVE normalize(_)
normalize(u) ==
    [u EXCEPT
       !.num = IF IsSome(u.num) THEN Some(normalize_num(Unwrap(u.num))) ELSE None,
       !.str_ = IF IsSome(u.str_) THEN Some(normalize_str(Unwrap(u.str_))) ELSE None,
       !.arr = IF IsSome(u.arr)
               THEN LET a == Unwrap(u.arr)
                        rec == [a EXCEPT !.item = normalize(a.item),
                                         !.cols = [i \in 1..Len(a.cols) |-> normalize(a.cols[i])]]
                    IN  Some(IF ~decide_tuple(rec)
                             THEN [rec EXCEPT !.cols = <<>>, !.present = <<>>, !.non_null = <<>>]
                             ELSE rec)
               ELSE None,
       !.obj = IF IsSome(u.obj)
               THEN LET o == Unwrap(u.obj)
                    IN  Some([o EXCEPT !.fields =
                                [k \in DOMAIN o.fields |->
                                    [o.fields[k] EXCEPT !.ty = normalize(o.fields[k].ty)]]])
               ELSE None]

\* ------------------------------- Emission -------------------------------- \*

\* the elements of a BTreeSet<OrderedFloat<f64>> in ascending order
RECURSIVE SortedNums(_)
SortedNums(S) ==
    IF S = {} THEN <<>>
    ELSE LET m == CHOOSE x \in S : \A y \in S : x <= y
         IN  <<m>> \o SortedNums(S \ {m})

\* a JSON number: an integer literal when exact and in i64 range, else a float
json_num_pref_i64(n) ==
    IF IsIntegral(n) /\ CastI64(n) * 2 = n
    THEN [json |-> "int", v |-> CastI64(n)]
    ELSE [json |-> "float", v |-> n]

JsonNull == [type |-> "null"]

emit_num(num) ==
    LET is_integerish == /\ (num.saw_int \/ num.saw_uint)
                         /\ ~num.saw_float
                         /\ IsIntegral(num.min_f64)
                         /\ IsIntegral(num.max_f64)
        lits == SortedNums(num.lits_f64)
    IN  [type |-> IF is_integerish THEN "integer" ELSE "number",
         minimum |-> Some(json_num_pref_i64(num.min_f64)),
         maximum |-> Some(json_num_pref_i64(num.max_f64)),
         enum_numbers |-> IF num.lits_f64 # {}
                          THEN Some([i \in 1..Len(lits) |-> json_num_pref_i64(lits[i])])
                          ELSE None]

emit_str(str_c) ==
    LET lcp == str_c.lcp
        pat == IF Len(Unwrap(lcp)) > 80 THEN SubSeq(Unwrap(lcp), 1, 80) ELSE Unwrap(lcp)
    IN  [type |-> "string",
         enum |-> IF str_c.lits # {} THEN Some(SortedStrs(str_c.lits)) ELSE None,
         pattern |-> IF str_c.lits = {} /\ IsSome(lcp)
                        /\ Len(Unwrap(lcp)) >= LCP_MIN_FOR_PATTERN
                     THEN Some(<<94>> \o escape_regex(pat) \o <<46, 42>>)
                     ELSE None,
         format |-> IF str_c.is_uri THEN Some("uri") ELSE None]

RECURSIVE emit_schema(_)
emit_schema(u) ==
    LET numArm == IF IsSome(u.num) THEN <<emit_num(Unwrap(u.num))>> ELSE <<>>
        strArm == IF IsSome(u.str_) THEN <<emit_str(Unwrap(u.str_))>> ELSE <<>>
        boolArm == IF u.has_bool THEN <<[type |-> "boolean"]>> ELSE <<>>
        arrArm ==
            IF IsSome(u.arr)
            THEN LET arr == Unwrap(u.arr)
                     max_items == Len(arr.cols)
                     min_items == IF arr.len_min = arr.len_max /\ arr.len_max > 0
                                  THEN max_items
                                  ELSE tuple_min_items_arr(arr)
                 IN  IF Len(arr.cols) # 0
                     THEN <<[type |-> "array",
                             prefixItems |-> [i \in 1..Len(arr.cols) |-> emit_schema(arr.cols[i])],
                             minItems |-> min_items,
                             maxItems |-> max_items]>>
                     ELSE <<[type |-> "array",
                             items |-> emit_schema(arr.item),
                             minItems |-> arr.len_min,
                             maxItems |-> arr.len_max]>>
            ELSE <<>>
        objArm ==
            IF IsSome(u.obj)
            THEN LET obj == Unwrap(u.obj)
                     keys == SortedStrs(DOMAIN obj.fields)
                     required == SelectSeq(keys,
                                    LAMBDA k : obj.fields[k].non_null_in = obj.seen_objects)
                 IN  <<[type |-> "object",
                        properties |-> [k \in DOMAIN obj.fields |-> emit_schema(obj.fields[k].ty)],
                        required |-> IF Len(required) # 0 THEN Some(required) ELSE None]>>
            ELSE <<>>
        arms == numArm \o strArm \o boolArm \o arrArm \o objArm
        core == IF Len(arms) = 0
                THEN (IF u.nullable THEN JsonNull ELSE [type |-> "any"])
                ELSE IF Len(arms) = 1 THEN arms[1]
                ELSE [oneOf |-> arms]
    IN  IF u.nullable /\ core # JsonNull
        THEN [oneOf |-> <<core, JsonNull>>]
        ELSE core


\* --------------------------- Regex synthesis ----------------------------- \*

IsWhitespace(c) == c \in {9, 10, 11, 12, 13, 32}

RECURSIVE TrimStart(_)
TrimStart(s) ==
    IF Len(s) > 0 /\ IsWhitespace(s[1]) THEN TrimStart(Tail(s)) ELSE s

RECURSIVE TrimEnd(_)
TrimEnd(s) ==
    IF Len(s) > 0 /\ IsWhitespace(s[Len(s)]) THEN TrimEnd(SubSeq(s, 1, Len(s) - 1)) ELSE s

\* str::trim
trim(s) == TrimEnd(TrimStart(s))

RECURSIVE SumLen(_)
SumLen(S) ==
    IF S = {} THEN 0
    ELSE LET x == CHOOSE y \in S : TRUE IN Len(x) + SumLen(S \ {x})

\* The hash component is the sorted trimmed contents themselves: equal keys
\* stand for equal literal sets, as the cache intends.
grex_cache_key(samples) ==
    LET it == SortedStrs(samples)
    IN  [count |-> Cardinality(samples),
         total_chars |-> SumLen(samples),
         hash |-> [i \in 1..Len(it) |-> trim(it[i])]]

\* grex builds an anchored expression matching exactly the given literals, so
\* the expression is a function of the sorted, trimmed, non-empty literal
\* list; that list stands for the expression.  Its length and its '|' count
\* are taken from the plain alternation ^(?:l1|l2|...)$ of the escaped
\* literals, which grex's output never exceeds.
RECURSIVE AltLen(_)
AltLen(lits) ==
    IF Len(lits) = 0 THEN 0
    ELSE Len(escape_regex(Head(lits))) + 1 + AltLen(Tail(lits))

RECURSIVE CountBars(_)
CountBars(lits) ==
    IF Len(lits) = 0 THEN 0
    ELSE Cardinality({i \in 1..Len(Head(lits)) : Head(lits)[i] = 124}) + 1
         + CountBars(Tail(lits))

synth_regex_with_grex(samples) ==
    LET trimmed == {trim(s) : s \in samples} \ {<<>>}
        lits == SortedStrs(trimmed)
    IN  IF Cardinality(samples) < GREX_MIN_SAMPLES THEN None
        ELSE IF Cardinality({s \in samples : trim(s) # <<>>}) < GREX_MIN_SAMPLES THEN None
        ELSE IF AltLen(lits) + 5 > GREX_MAX_PATTERN_LEN THEN None
        ELSE IF CountBars(lits) - 1 > GREX_MAX_ALTS THEN None
        ELSE Some([grex |-> lits])

\* -------------------- builder: U -> NTy (norm_ir.rs) --------------------- \*

ENABLE_STRING_ENUMS == policy.enable_string_enums
ENABLE_GREX == policy.enable_grex

NTyNull == [tag |-> "Null"]
NTyBool == [tag |-> "Bool"]

\* norm_num with the saw_float test left out of integerish
norm_num_NoFloatFlag(num) ==
    LET integerish == /\ (num.saw_int \/ num.saw_uint)
                      /\ IsIntegral(num.min_f64)
                      /\ IsIntegral(num.max_f64)
    IN  IF integerish
        THEN [tag |-> "Integer",
              min |-> Some(CastI64(num.min_f64)), max |-> Some(CastI64(num.max_f64))]
        ELSE [tag |-> "Number", min |-> Some(num.min_f64), max |-> Some(num.max_f64)]

norm_num(num) ==
    LET integerish == /\ (num.saw_int \/ num.saw_uint)
                      /\ ~num.saw_float
                      /\ IsIntegral(num.min_f64)
                      /\ IsIntegral(num.max_f64)
    IN  IF integerish
        THEN [tag |-> "Integer",
              min |-> Some(CastI64(num.min_f64)), max |-> Some(CastI64(num.max_f64))]
        ELSE [tag |-> "Number", min |-> Some(num.min_f64), max |-> Some(num.max_f64)]

\* norm_str with the tiny-enum test not reading ENABLE_STRING_ENUMS
norm_str_EnumIgnoresFlag(str_c) ==
    LET tiny_enum == /\ Cardinality(str_c.lits) <= STRING_ENUM_MAX
                     /\ \A s \in str_c.lits :
                           Len(s) <= STRING_ENUM_MAX_LEN /\ looks_humanish(s)
        rx == IF ENABLE_GREX
              THEN IF /\ IsSome(str_c.grex_cache_key)
                      /\ str_c.grex_cache_key = Some(grex_cache_key(str_c.lits))
                   THEN str_c.pattern_synth
                   ELSE synth_regex_with_grex(str_c.lits)
              ELSE None
    IN  IF tiny_enum /\ str_c.lits # {}
        THEN [tag |-> "String", enum_ |-> SortedStrs(str_c.lits),
              pattern |-> None, format_uri |-> str_c.is_uri]
        ELSE IF ~str_c.is_uri
        THEN [tag |-> "String", enum_ |-> <<>>, pattern |-> rx, format_uri |-> str_c.is_uri]
        ELSE [tag |-> "String", enum_ |-> <<>>, pattern |-> None, format_uri |-> str_c.is_uri]

norm_str(str_c) ==
    LET tiny_enum == /\ ENABLE_STRING_ENUMS
                     /\ Cardinality(str_c.lits) <= STRING_ENUM_MAX
                     /\ \A s \in str_c.lits :
                           Len(s) <= STRING_ENUM_MAX_LEN /\ looks_humanish(s)
        rx == IF ENABLE_GREX
              THEN IF /\ IsSome(str_c.grex_cache_key)
                      /\ str_c.grex_cache_key = Some(grex_cache_key(str_c.lits))
                   THEN str_c.pattern_synth
                   ELSE synth_regex_with_grex(str_c.lits)
              ELSE None
    IN  IF tiny_enum /\ str_c.lits # {}
        THEN [tag |-> "String", enum_ |-> SortedStrs(str_c.lits),
              pattern |-> None, format_uri |-> str_c.is_uri]
        ELSE IF ~str_c.is_uri
        THEN [tag |-> "String", enum_ |-> <<>>, pattern |-> rx, format_uri |-> str_c.is_uri]
        ELSE [tag |-> "String", enum_ |-> <<>>, pattern |-> None, format_uri |-> str_c.is_uri]

\* simplify_norm_unions with the retain predicate inverted
simplify_norm_unions_Inverted(arms) ==
    LET kept == SelectSeq(arms, LAMBDA t : t = NTyNull)
        had_null == Len(kept) # Len(arms)
        core == IF Len(kept) = 0 THEN NTyNull
                ELSE IF Len(kept) = 1 THEN kept[1]
                ELSE [tag |-> "OneOf", arms |-> kept]
    IN  IF had_null THEN [tag |-> "Nullable", inner |-> core] ELSE core

simplify_norm_unions(arms) ==
    LET kept == SelectSeq(arms, LAMBDA t : t # NTyNull)
        had_null == Len(kept) # Len(arms)
        core == IF Len(kept) = 0 THEN NTyNull
                ELSE IF Len(kept) = 1 THEN kept[1]
                ELSE [tag |-> "OneOf", arms |-> kept]
    IN  IF had_null THEN [tag |-> "Nullable", inner |-> core] ELSE core

\* The ArrC handed to tuple_min_items_arr by the tuple arm: the counts are
\* cloned, cols is Vec::new().
MinItemsProbe(arr) ==
    [len_min |-> arr.len_min, len_max |-> arr.len_max, item |-> U_empty,
     cols |-> <<>>, present |-> arr.present, non_null |-> arr.non_null,
     samples |-> arr.samples]

\* the tuple arm's bounds with max_items read from the observed lengths
\* (len_min) instead of the number of elems
tuple_items_FromLenMin(arr, elems) ==
    LET max_items == arr.len_min
    IN  [max_items |-> max_items,
         min_items |-> IF arr.len_min = arr.len_max /\ arr.len_max > 0
                       THEN max_items
                       ELSE tuple_min_items_arr(MinItemsProbe(arr))]

\* let max_items = elems.len() as u32; let min_items = if ... { max_items }
\* else { tuple_min_items_arr(..) };
tuple_items(arr, elems) ==
    LET max_items == Len(elems)
    IN  [max_items |-> max_items,
         min_items |-> IF arr.len_min = arr.len_max /\ arr.len_max > 0
                       THEN max_items
                       ELSE tuple_min_items_arr(MinItemsProbe(arr))]

\* required read from present_in instead of non_null_in
field_required_Present(field_c, obj) == field_c.present_in = obj.seen_objects

\* let required = field_c.non_null_in == obj.seen_objects;
field_required(field_c, obj) == field_c.non_null_in = obj.seen_objects

RECURSIVE normalize_to_norm_consume(_)
normalize_to_norm_consume(u) ==
    IF is_exact_null(u) THEN NTyNull
    ELSE
    LET arrArm ==
            IF IsSome(u.arr)
            THEN LET arr == Unwrap(u.arr)
                     is_tuple == decide_tuple(arr)
                     item_norm == normalize_to_norm_consume(arr.item)
                     elems == [i \in 1..Len(arr.cols) |-> normalize_to_norm_consume(arr.cols[i])]
                     max_items == tuple_items(arr, elems).max_items
                     min_items == tuple_items(arr, elems).min_items
                 IN  IF ~is_tuple
                     THEN <<[tag |-> "ArrayList", item |-> item_norm,
                             min_items |-> Some(arr.len_min), max_items |-> Some(arr.len_max)]>>
                     ELSE <<[tag |-> "ArrayTuple", elems |-> elems,
                             min_items |-> min_items, max_items |-> max_items]>>
            ELSE <<>>
        objArm ==
            IF IsSome(u.obj)
            THEN LET obj == Unwrap(u.obj)
                     names == SortedStrs(DOMAIN obj.fields)
                 IN  <<[tag |-> "Object",
                        fields |-> [i \in 1..Len(names) |->
                            [name |-> names[i],
                             ty |-> normalize_to_norm_consume(obj.fields[names[i]].ty),
                             required |-> field_required(obj.fields[names[i]], obj)]]]>>
            ELSE <<>>
        numArm == IF IsSome(u.num) THEN <<norm_num(Unwrap(u.num))>> ELSE <<>>
        strArm == IF IsSome(u.str_) THEN <<norm_str(Unwrap(u.str_))>> ELSE <<>>
        boolArm == IF u.has_bool THEN <<NTyBool>> ELSE <<>>
        arms == arrArm \o objArm \o numArm \o strArm \o boolArm
        core == IF Len(arms) = 0 THEN NTyNull
                ELSE IF Len(arms) = 1 THEN arms[1]
                ELSE simplify_norm_unions(arms)
    IN  IF u.nullable /\ core # NTyNull
        THEN [tag |-> "Nullable", inner |-> core]
        ELSE core


\* ------------------- adapter: NTy -> JSON Schema ------------------------- \*

\* A JSON object is a record; a key that the code inserts conditionally
\* is an Option.
RECURSIVE schema_from_norm(_)
schema_from_norm(n) ==
    CASE n.tag = "Null" -> [type |-> "null"]
      [] n.tag = "Bool" -> [type |-> "boolean"]
      [] n.tag = "Integer" -> [type |-> "integer", minimum |-> n.min, maximum |-> n.max]
      [] n.tag = "Number" -> [type |-> "number", minimum |-> n.min, maximum |-> n.max]
      [] n.tag = "String" ->
            [type |-> "string",
             enum |-> IF Len(n.enum_) # 0 THEN Some(n.enum_) ELSE None,
             pattern |-> IF Len(n.enum_) = 0 THEN n.pattern ELSE None,
             format |-> IF n.format_uri THEN Some("uri") ELSE None]
      [] n.tag = "ArrayList" ->
            [type |-> "array", items |-> schema_from_norm(n.item),
             minItems |-> n.min_items, maxItems |-> n.max_items]
      [] n.tag = "ArrayTuple" ->
            [type |-> "array",
             prefixItems |-> [i \in 1..Len(n.elems) |-> schema_from_norm(n.elems[i])],
             minItems |-> n.min_items, maxItems |-> n.max_items]
      [] n.tag = "Object" ->
            LET req == SelectSeq(n.fields, LAMBDA f : f.required)
            IN  [type |-> "object",
                 properties |-> [k \in {n.fields[i].name : i \in 1..Len(n.fields)} |->
                     schema_from_norm(
                        (CHOOSE f \in {n.fields[i] : i \in 1..Len(n.fields)} : f.name = k).ty)],
                 required |-> IF Len(req) # 0
                              THEN Some([i \in 1..Len(req) |-> req[i].name])
                              ELSE None]
      [] n.tag = "Nullable" ->
            LET inner_schema == schema_from_norm(n.inner)
            IN  IF inner_schema = [type |-> "null"]
                THEN inner_schema
                ELSE [oneOf |-> <<inner_schema, [type |-> "null"]>>]
      [] n.tag = "OneOf" ->
            [oneOf |-> [i \in 1..Len(n.arms) |-> schema_from_norm(n.arms[i])]]

\* --------------------- lowering: U -> Ty (lower.rs) ---------------------- \*

TyNull == [tag |-> "Null"]
TyBool == [tag |-> "Bool"]

\* Collapse common unions: X u null -> Nullable(X)
simplify_unions(arms) ==
    LET kept == SelectSeq(arms, LAMBDA t : t # TyNull)
        had_null == Len(kept) # Len(arms)
        core == IF Len(kept) = 0 THEN TyNull
                ELSE IF Len(kept) = 1 THEN kept[1]
                ELSE [tag |-> "OneOf", arms |-> kept]
    IN  IF had_null THEN [tag |-> "Nullable", inner |-> core] ELSE core

RECURSIVE lower_to_ir(_)
RECURSIVE lower_core(_)

lower_to_ir(u) ==
    IF is_exact_null(u) THEN TyNull
    ELSE LET base == lower_core(u)
         IN  IF u.nullable THEN [tag |-> "Nullable", inner |-> base] ELSE base

\* The array arm reads the U as normalize left it: a tuple when cols is
\* non-empty, a list otherwise; tuple_min_items_arr is given the record itself.
lower_core(u) ==
    LET arrArm ==
            IF IsSome(u.arr)
            THEN LET arr == Unwrap(u.arr)
                     elems == [i \in 1..Len(arr.cols) |-> lower_to_ir(arr.cols[i])]
                     max_items == Len(arr.cols)
                     min_items == IF arr.len_min = arr.len_max /\ arr.len_max > 0
                                  THEN max_items
                                  ELSE tuple_min_items_arr(arr)
                 IN  IF Len(arr.cols) # 0
                     THEN <<[tag |-> "ArrayTuple", elems |-> elems,
                             min_items |-> min_items, max_items |-> max_items]>>
                     ELSE <<[tag |-> "ArrayList", item |-> lower_to_ir(arr.item),
                             min_items |-> Some(arr.len_min), max_items |-> Some(arr.len_max)]>>
            ELSE <<>>
        objArm ==
            IF IsSome(u.obj)
            THEN LET obj == Unwrap(u.obj)
                     names == SortedStrs(DOMAIN obj.fields)
                 IN  <<[tag |-> "Object",
                        fields |-> [i \in 1..Len(names) |->
                            [name |-> names[i],
                             ty |-> lower_to_ir(obj.fields[names[i]].ty),
                             required |-> obj.fields[names[i]].non_null_in = obj.seen_objects]]]>>
            ELSE <<>>
        numArm ==
            IF IsSome(u.num)
            THEN LET num == Unwrap(u.num)
                     integerish == /\ (num.saw_int \/ num.saw_uint)
                                   /\ ~num.saw_float
                                   /\ IsIntegral(num.min_f64)
                                   /\ IsIntegral(num.max_f64)
                 IN  IF integerish
                     THEN <<[tag |-> "Integer", min |-> Some(CastI64(num.min_f64)),
                             max |-> Some(CastI64(num.max_f64))]>>
                     ELSE <<[tag |-> "Number", min |-> Some(num.min_f64),
                             max |-> Some(num.max_f64)]>>
            ELSE <<>>
        strArm ==
            IF IsSome(u.str_)
            THEN LET str_c == Unwrap(u.str_)
                 IN  <<[tag |-> "String", enum_ |-> SortedStrs(str_c.lits),
                        pattern |-> str_c.pattern_synth, format_uri |-> str_c.is_uri]>>
            ELSE <<>>
        boolArm == IF u.has_bool THEN <<TyBool>> ELSE <<>>
        arms == arrArm \o objArm \o numArm \o strArm \o boolArm
    IN  IF Len(arms) = 0 THEN TyNull
        ELSE IF Len(arms) = 1 THEN arms[1]
        ELSE simplify_unions(arms)

\* NTy -> Ty, node by node
RECURSIVE lower_from_norm(_)
lower_from_norm(n) ==
    CASE n.tag = "Null" -> TyNull
      [] n.tag = "Bool" -> TyBool
      [] n.tag = "Integer" -> [tag |-> "Integer", min |-> n.min, max |-> n.max]
      [] n.tag = "Number" -> [tag |-> "Number", min |-> n.min, max |-> n.max]
      [] n.tag = "String" ->
            [tag |-> "String", enum_ |-> n.enum_, pattern |-> n.pattern,
             format_uri |-> n.format_uri]
      [] n.tag = "ArrayList" ->
            [tag |-> "ArrayList", item |-> lower_from_norm(n.item),
             min_items |-> n.min_items, max_items |-> n.max_items]
      [] n.tag = "ArrayTuple" ->
            [tag |-> "ArrayTuple",
             elems |-> [i \in 1..Len(n.elems) |-> lower_from_norm(n.elems[i])],
             min_items |-> n.min_items, max_items |-> n.max_items]
      [] n.tag = "Object" ->
            [tag |-> "Object",
             fields |-> [i \in 1..Len(n.fields) |->
                 [name |-> n.fields[i].name, ty |-> lower_from_norm(n.fields[i].ty),
                  required |-> n.fields[i].required]]]
      [] n.tag = "Nullable" -> [tag |-> "Nullable", inner |-> lower_from_norm(n.inner)]
      [] n.tag = "OneOf" ->
            [tag |-> "OneOf", arms |-> [i \in 1..Len(n.arms) |-> lower_from_norm(n.arms[i])]]

\* the decide-first pipeline
normalize_and_lower(u) == lower_from_norm(normalize_to_norm_consume(u))

\* the recurse-first pipeline: normalize(&mut u), then lower_to_ir(&u)
normalize_then_lower(u) == lower_to_ir(normalize(u))

\* ------------------------------ Documents -------------------------------- \*

VNull == [k |-> "null"]
VBool(b) == [k |-> "bool", b |-> b]
VInt(n) == [k |-> "num", repr |-> "i64", val |-> 2 * n]
\* an integer above i64::MAX, which serde_json holds as u64
VUint(n) == [k |-> "num", repr |-> "u64", val |-> 2 * n]
VFloat(halves) == [k |-> "num", repr |-> "f64", val |-> halves]
\* a Number for which as_i64, as_u64 and as_f64 all return None
VUnrepresentable == [k |-> "num", repr |-> "none", val |-> 0]
VStr(s) == [k |-> "str", s |-> s]
VArr(xs) == [k |-> "arr", xs |-> xs]
VObj(m) == [k |-> "obj", m |-> m]

S_on == <<111, 110>>
S_off == <<111, 102, 102>>
S_tel == <<116, 101, 108, 58, 49>>
K_x == <<120>>
K_y == <<121>>

\* one array of MAX_STR_LITS distinct two-letter strings, "aa", "ab", ...: a
\* document that fills a literal set to its cap
BulkDoc ==
    VArr([i \in 1..MAX_STR_LITS |-> VStr(<<97 + ((i - 1) \div 8), 97 + ((i - 1) % 8)>>)])

\* one array of MAX_NUM_LITS distinct integers, 101, 102, ...
BulkNums ==
    VArr([i \in 1..MAX_NUM_LITS |-> VInt(100 + i)])

\* The documents the drivers are fed.
Values ==
    { VNull, VBool(TRUE), VInt(1), VFloat(3), VFloat(4), VStr(S_on),
      VArr(<<>>),
      VArr(<<VInt(2)>>),
      VArr(<<VInt(1), VNull>>),
      VArr(<<VInt(1), VStr(S_on)>>),
      VArr(<<VInt(2), VNull, VStr(S_off)>>),
      VObj((K_x :> VInt(1)) @@ (K_y :> VStr(S_on))),
      VObj((K_x :> VInt(2)) @@ (K_y :> VNull)),
      VObj(K_x :> VInt(1)),
      VArr(<<VStr(S_tel)>>),
      BulkDoc,
      BulkNums }

\* The documents explored next to BulkDoc: a corpus that holds BulkDoc draws
\* its other documents from these.
CapCompanions ==
    { BulkDoc, VStr(S_on),
      VArr(<<VInt(1), VStr(S_on)>>),
      VArr(<<VInt(2), VNull, VStr(S_off)>>),
      VArr(<<VStr(S_tel)>>),
      BulkNums }

\* The documents explored next to BulkNums.
NumCapCompanions ==
    { BulkNums, VInt(1), VArr(<<VInt(2)>>), VArr(<<VInt(1), VNull>>),
      VArr(<<VInt(2), VNull, VStr(S_off)>>),
      BulkDoc }

\* the corpora explored
CorpusOK(docs) ==
    /\ BulkDoc \in docs => docs \subseteq CapCompanions
    /\ BulkNums \in docs => docs \subseteq NumCapCompanions

\* the largest number of documents in a corpus
MaxDocs == 3

\* the largest number of unused U::empty() leaves waiting in the reduce
MaxSeeds == 1

\* ------------------------------- Drivers --------------------------------- \*

Entries == BagToSet(pool)

RECURSIVE SumDocs(_)
SumDocs(es) ==
    IF es = {} THEN 0
    ELSE LET e == CHOOSE x \in es : TRUE
         IN  CopiesIn(e, pool) * BagCardinality(e.docs) + SumDocs(es \ {e})

NumDocs == SumDocs(Entries)

\* the documents observed so far
AllDocs == UNION {BagToSet(e.docs) : e \in Entries}

Init ==
    /\ policy \in [enable_string_enums : BOOLEAN, enable_grex : BOOLEAN]
    /\ inf = U_empty
    /\ pool = EmptyBag
    /\ fed = <<>>
    /\ results = <<>>

\* One document arrives.  The sequential driver folds it into its state
\* (Inference::observe_value); the parallel driver's map closure starts from
\* U::empty() and joins the observation into its accumulator.
Observe(v) ==
    /\ NumDocs < MaxDocs
    /\ CorpusOK(AllDocs \cup {v})
    /\ inf' = join(inf, observe_value(v))
    /\ pool' = pool (+) SetToBag({[u |-> join(U_empty, observe_value(v)),
                                   docs |-> SetToBag({v})]})
    /\ UNCHANGED <<policy, fed, results>>

\* One step of the parallel reduce: |a, b| join(&a, &b) on any two partial
\* results, in either order.
Reduce(e1, e2) ==
    /\ e1 \in Entries
    /\ e2 \in Entries
    /\ e1 # e2 \/ CopiesIn(e1, pool) >= 2
    /\ pool' = ((pool (-) SetToBag({e1})) (-) SetToBag({e2}))
               (+) SetToBag({[u |-> join(e1.u, e2.u), docs |-> e1.docs (+) e2.docs]})
    /\ UNCHANGED <<policy, inf, fed, results>>

\* a branch of the reduce that holds no document yet: || U::empty()
EmptyLeaf == [u |-> U_empty, docs |-> EmptyBag]

\* The reduce seeds a branch with its identity.
Seed ==
    /\ CopiesIn(EmptyLeaf, pool) < MaxSeeds
    /\ pool' = pool (+) SetToBag({EmptyLeaf})
    /\ UNCHANGED <<policy, inf, fed, results>>

Next ==
    \/ \E v \in Values : Observe(v)
    \/ Seed
    \/ \E e1 \in Entries : \E e2 \in Entries : Reduce(e1, e2)

Spec == Init /\ [][Next]_vars

\* ---------------------- Inference used step by step ---------------------- \*

\* Inference::solve normalizing self.state itself instead of a clone
solve_InPlace(state) ==
    [state |-> normalize(state), result |-> normalize(state)]

\* Inference::solve: the U it returns and the state it leaves in self
solve(state) ==
    [state |-> state, result |-> normalize(state)]

\* for v in values { st = join(&st, &observe_value(v)); }
RECURSIVE FoldObserve(_, _)
FoldObserve(st, values) ==
    IF values = <<>> THEN st
    ELSE LET nxt == join(st, observe_value(Head(values)))
         IN  IF nxt.nullable \in BOOLEAN THEN FoldObserve(nxt, Tail(values)) ELSE nxt

infer_from_values(values) == normalize(FoldObserve(U_empty, values))

\* The values fed to an Inference that is solved between documents; nothing
\* keeps a caller from passing a Number outside the input contract.
SolveValues ==
    { VNull, VInt(1), VFloat(3), VStr(S_on), VUnrepresentable,
      VArr(<<VInt(1), VStr(S_on)>>),
      VArr(<<VInt(2), VNull, VStr(S_off)>>),
      VArr(<<VStr(S_tel)>>),
      VObj((K_x :> VInt(1)) @@ (K_y :> VStr(S_on))),
      VObj((K_x :> VInt(2)) @@ (K_y :> VNull)) }

\* the largest number of values fed, and of solve calls
MaxFed == 3
MaxSolves == 2

\* Inference::observe_value
Feed(v) ==
    /\ Len(fed) < MaxFed
    /\ inf' = join(inf, observe_value(v))
    /\ fed' = Append(fed, v)
    /\ UNCHANGED <<policy, pool, results>>

\* Inference::solve, called at a document boundary
Solve ==
    /\ Len(results) < MaxSolves
    /\ inf' = solve(inf).state
    /\ results' = Append(results, [at |-> Len(fed), u |-> solve(inf).result])
    /\ UNCHANGED <<policy, pool, fed>>

NextSolve ==
    \/ \E v \in SolveValues : Feed(v)
    \/ Solve

SpecSolve == Init /\ [][NextSolve]_vars

\* ------------------- infer_from_values on string corpora ------------------ \*

\* "tok" followed by two letters: tokens that share a prefix of 3 characters
TokenStr(i) == <<116, 111, 107, 97 + ((i - 1) \div 8), 97 + ((i - 1) % 8)>>

\* the first n tokens, one value each
TokenCorpus(n) == [i \in 1..n |-> VStr(TokenStr(i))]

\* the longest corpus of strings, and the largest number of tokens in one
MaxCorpusLen == 3
MaxTokens == 66

ShortCorpora ==
    UNION {[1..n -> {VStr(S_on), VStr(S_off), VStr(TokenStr(1)), VStr(TokenStr(2))}] :
              n \in 1..MaxCorpusLen}

\* an integer that fits u64 only
BigUint == I64_MAX + 500

IntegerCorpora ==
    UNION {[1..n -> {VInt(1), VInt(-3), VInt(I64_MAX), VUint(BigUint)}] :
              n \in 1..MaxCorpusLen}

\* The corpora handed to infer_from_values: every short sequence over four
\* strings or over four integers, and runs of distinct tokens around
\* MAX_STR_LITS.
Corpora ==
    ShortCorpora \cup IntegerCorpora
    \cup {TokenCorpus(n) : n \in (MAX_STR_LITS - 2)..MaxTokens}

\* infer_from_values(values), up to the fold; normalize is applied where the
\* result is read
Infer(values) ==
    /\ fed' = values
    /\ inf' = FoldObserve(U_empty, values)
    /\ UNCHANGED <<policy, pool, results>>

NextInfer == \E values \in Corpora : Infer(values)

SpecInfer == Init /\ [][NextInfer]_vars


\* ------------------------- Normalized results ---------------------------- \*

\* compute_merge_summary with --no-parallel: let mut u = inf.solve();
\* normalize(&mut u); return u
summary_no_parallel(state) == normalize(solve(state).result)

\* compute_merge_summary otherwise: let mut u = combined; normalize(&mut u); u
summary_parallel(combined) == normalize(combined)

\* The repository normalizes in two ways: normalize_to_norm_consume builds
\* the normalized IR, and normalize followed by emit_schema is what
\* compute_merge_summary and the schema command run.  Two U values have the
\* same normalized result when both agree on them.
SameNormalized(x, y) ==
    /\ normalize_to_norm_consume(x) = normalize_to_norm_consume(y)
    /\ emit_schema(normalize(x)) = emit_schema(normalize(y))

\* the U values built so far from observe and join
Reached == {e.u : e \in Entries} \cup {inf}

IsArrayDoc(v) == v.k = "arr"
IsObjectDoc(v) == v.k = "obj"
Docs(e) == BagToSet(e.docs)

\* ------------------------------- Claims ---------------------------------- \*

\* C1: when the parallel reduce has combined every document into one result,
\* by whatever tree and in whatever order, its normalized summary, its
\* emitted schema and its normalized IR are those of the sequential left fold
\* over the same documents.
C1_ReductionTreeIrrelevant ==
    \A e \in Entries :
        BagCardinality(pool) = 1 =>
            /\ normalize(e.u) = normalize(inf)
            /\ SameNormalized(e.u, inf)

C3_JoinIdempotent ==
    \A u \in Reached : SameNormalized(join(u, u), u)

\* C4: join is commutative at the level of the normalized result, for all
\* reachable a and b.
C4_JoinCommutative ==
    \A a \in Reached : \A b \in Reached :
        SameNormalized(join(a, b), join(b, a))

\* two partial results wait in the pool, one holding arrays and the other
\* not, or both arrays of different lengths, or objects with different keys
C4_Witness ==
    /\ \E e1 \in Entries : \E e2 \in Entries :
          /\ IsSome(e1.u.arr) /\ IsSome(e2.u.arr)
          /\ Unwrap(e1.u.arr).len_max # Unwrap(e2.u.arr).len_max
          /\ normalize_to_norm_consume(join(e1.u, e2.u)).tag = "ArrayList"
    /\ IsSome(inf.arr)

\* C5: U::empty() is a left and a right identity of join at the level of the
\* normalized result, for every reachable u.
C5_EmptyIsIdentity ==
    \A u \in Reached \cup {observe_value(v) : v \in AllDocs} :
        /\ SameNormalized(join(U_empty, u), u)
        /\ SameNormalized(join(u, U_empty), u)

\* a partial result that joins a number with a string has been built
C5_Witness ==
    \E e \in Entries :
        /\ BagCardinality(e.docs) >= 2
        /\ IsSome(e.u.num)
        /\ IsSome(e.u.str_)
        /\ normalize_to_norm_consume(join(U_empty, e.u)).tag = "OneOf"

\* ------------------------ Ground truth of a corpus ----------------------- \*

ArrayDocs(e) == {v \in Docs(e) : IsArrayDoc(v)}
ObjectDocs(e) == {v \in Docs(e) : IsObjectDoc(v)}

\* how many arrays the documents of e hold, copies counted
NumArrayDocs(e) == BagCardinality([v \in ArrayDocs(e) |-> e.docs[v]])
NumObjectDocs(e) == BagCardinality([v \in ObjectDocs(e) |-> e.docs[v]])

Lengths(e) == {Len(d.xs) : d \in ArrayDocs(e)}
MinLength(e) == CHOOSE n \in Lengths(e) : \A m \in Lengths(e) : n <= m
MaxLength(e) == CHOOSE n \in Lengths(e) : \A m \in Lengths(e) : n >= m

\* some position is present in every array of e and null in every one
HasNullPad(e) ==
    \E i \in 1..MinLength(e) : \A d \in ArrayDocs(e) : IsNullValue(d.xs[i])

\* the arms of a normalized node, under Nullable and OneOf
ArmsOf(t) ==
    LET c == IF t.tag = "Nullable" THEN t.inner ELSE t
    IN  IF c.tag = "OneOf" THEN {c.arms[i] : i \in 1..Len(c.arms)} ELSE {c}

ArrayArms(t) == {a \in ArmsOf(t) : a.tag \in {"ArrayList", "ArrayTuple"}}
ObjectArms(t) == {a \in ArmsOf(t) : a.tag = "Object"}

\* C6: a field of the object node is marked required exactly when every
\* object observed there held it with a non-null value, and that is when its
\* non_null_in counter equals seen_objects.
C6_RequiredIffNonNullEverywhere ==
    \A e \in Entries :
        ObjectDocs(e) # {} =>
            /\ ObjectArms(normalize_to_norm_consume(e.u)) # {}
            /\ \A o \in ObjectArms(normalize_to_norm_consume(e.u)) :
                  \A i \in 1..Len(o.fields) :
                     LET name == o.fields[i].name
                         everywhere == \A d \in ObjectDocs(e) :
                                         name \in DOMAIN d.m /\ ~IsNullValue(d.m[name])
                         obj == Unwrap(e.u.obj)
                     IN  /\ o.fields[i].required <=> everywhere
                         /\ (obj.fields[name].non_null_in = obj.seen_objects) <=> everywhere

\* two objects were joined: one field is required, another is present in
\* both but null in one and is not required
C6_Witness ==
    \E e \in Entries :
        /\ NumObjectDocs(e) >= 2
        /\ \E o \in ObjectArms(normalize_to_norm_consume(e.u)) :
              \E i, j \in 1..Len(o.fields) :
                 /\ o.fields[i].required
                 /\ ~o.fields[j].required
                 /\ \A d \in ObjectDocs(e) : o.fields[j].name \in DOMAIN d.m

\* the condition the specification gives for a tuple
TupleCondition(arr) ==
    /\ arr.samples >= 2
    /\ Len(arr.cols) > 0
    /\ \/ arr.len_min = arr.len_max /\ arr.len_max > 0
       \/ \E i \in 1..Len(arr.cols) :
             arr.present[i] = arr.samples /\ arr.non_null[i] = 0

\* C7: decide_tuple holds exactly under the tuple condition; and a corpus of
\* two or more arrays with a position present and null in every one of them
\* is a tuple, whatever the lengths.
C7_DecideTupleIff ==
    /\ \A u \in Reached :
          IsSome(u.arr) => (decide_tuple(Unwrap(u.arr)) <=> TupleCondition(Unwrap(u.arr)))
    /\ \A e \in Entries :
          (NumArrayDocs(e) >= 2 /\ HasNullPad(e)) =>
             /\ decide_tuple(Unwrap(e.u.arr))
             /\ \A a \in ArrayArms(normalize_to_norm_consume(e.u)) : a.tag = "ArrayTuple"
             /\ Unwrap(normalize(e.u).arr).cols # <<>>

\* arrays of different lengths sharing an always-null position were joined
\* and the node is a tuple
C7_Witness ==
    \E e \in Entries :
        /\ NumArrayDocs(e) >= 2
        /\ MinLength(e) # MaxLength(e)
        /\ HasNullPad(e)
        /\ decide_tuple(Unwrap(e.u.arr))

\* C8, as stated: a corpus of arrays all of one length yields an ArrayTuple
\* whose min_items equals its max_items.
C8_SameLengthIsTuple ==
    \A e \in Entries :
        (ArrayDocs(e) # {} /\ MinLength(e) = MaxLength(e)) =>
            /\ ArrayArms(normalize_to_norm_consume(e.u)) # {}
            /\ \A a \in ArrayArms(normalize_to_norm_consume(e.u)) :
                  a.tag = "ArrayTuple" /\ a.min_items = a.max_items

\* C8, amended: a corpus of at least two arrays, all of one length that is at
\* least 1, yields an ArrayTuple whose min_items and max_items are that
\* length.
C8_SameLengthTwoSamplesIsTuple ==
    \A e \in Entries :
        (NumArrayDocs(e) >= 2 /\ MinLength(e) = MaxLength(e) /\ MaxLength(e) >= 1) =>
            /\ ArrayArms(normalize_to_norm_consume(e.u)) # {}
            /\ \A a \in ArrayArms(normalize_to_norm_consume(e.u)) :
                  /\ a.tag = "ArrayTuple"
                  /\ a.min_items = a.max_items
                  /\ a.max_items = MaxLength(e)

\* two different arrays of one length were joined and the node is a tuple
C8_Witness ==
    \E e \in Entries :
        /\ NumArrayDocs(e) >= 2
        /\ Cardinality(ArrayDocs(e)) >= 2
        /\ MinLength(e) = MaxLength(e)
        /\ \E a \in ArrayArms(normalize_to_norm_consume(e.u)) :
              a.tag = "ArrayTuple" /\ a.min_items = 2 /\ a.max_items = 2

\* the positions (counted from 1) present in every sample
RequiredPositions(arr) == {i \in 1..Len(arr.present) : arr.present[i] = arr.samples}

\* C9: for a tuple whose lengths vary, the builder sets min_items to
\* last_req + 1, last_req the largest position present in every sample, and
\* to 0 only when there is none.
C9_TupleMinItemsLastReq ==
    \A e \in Entries :
        (/\ IsSome(e.u.arr)
         /\ decide_tuple(Unwrap(e.u.arr))
         /\ Unwrap(e.u.arr).len_min # Unwrap(e.u.arr).len_max) =>
            \A a \in ArrayArms(normalize_to_norm_consume(e.u)) :
                LET req == RequiredPositions(Unwrap(e.u.arr))
                IN  /\ a.tag = "ArrayTuple"
                    /\ a.min_items = IF req = {} THEN 0
                                     ELSE CHOOSE i \in req : \A j \in req : i >= j

\* C10: two or more arrays whose lengths vary, with no position present and
\* null in every one, yield an ArrayList bounded by the smallest and largest
\* length; no column survives normalization.
C10_VaryingLengthsIsList ==
    \A e \in Entries :
        (NumArrayDocs(e) >= 2 /\ MinLength(e) # MaxLength(e) /\ ~HasNullPad(e)) =>
            /\ ArrayArms(normalize_to_norm_consume(e.u)) # {}
            /\ \A a \in ArrayArms(normalize_to_norm_consume(e.u)) :
                  /\ a.tag = "ArrayList"
                  /\ a.min_items = Some(MinLength(e))
                  /\ a.max_items = Some(MaxLength(e))
            /\ Unwrap(normalize(e.u).arr).cols = <<>>
            /\ Unwrap(normalize(e.u).arr).present = <<>>
            /\ Unwrap(normalize(e.u).arr).non_null = <<>>

\* arrays of lengths 1 and 2 with no null pad were joined into a list
C10_Witness ==
    \E e \in Entries :
        /\ NumArrayDocs(e) >= 2
        /\ MinLength(e) = 1
        /\ MaxLength(e) = 2
        /\ ~HasNullPad(e)
        /\ \E a \in ArrayArms(normalize_to_norm_consume(e.u)) : a.tag = "ArrayList"

\* ------------------------- Nodes of a normalized IR ---------------------- \*

\* every node of an NTy, the root included
RECURSIVE NTyNodes(_)
NTyNodes(t) ==
    {t} \cup
    CASE t.tag = "Nullable"   -> NTyNodes(t.inner)
      [] t.tag = "OneOf"      -> UNION {NTyNodes(t.arms[i]) : i \in 1..Len(t.arms)}
      [] t.tag = "ArrayList"  -> NTyNodes(t.item)
      [] t.tag = "ArrayTuple" -> UNION {NTyNodes(t.elems[i]) : i \in 1..Len(t.elems)}
      [] t.tag = "Object"     -> UNION {NTyNodes(t.fields[i].ty) : i \in 1..Len(t.fields)}
      [] OTHER                -> {}

\* the nodes of the IR built from every U reached so far
ReachedNodes == UNION {NTyNodes(normalize_to_norm_consume(u)) : u \in Reached}

\* C11: every ArrayTuple node of every IR built from a reachable U has
\* max_items equal to its number of elems and min_items at most max_items.
C11_TupleItemsBounds ==
    \A t \in ReachedNodes :
        t.tag = "ArrayTuple" =>
            /\ t.max_items = Len(t.elems)
            /\ t.min_items <= t.max_items

\* a tuple of varying lengths (min_items below max_items) and a tuple of one
\* length have both been built
C11_Witness ==
    /\ \E t \in ReachedNodes :
          t.tag = "ArrayTuple" /\ t.min_items < t.max_items /\ Len(t.elems) = 3
    /\ \E t \in ReachedNodes :
          t.tag = "ArrayTuple" /\ t.min_items = t.max_items /\ Len(t.elems) = 2

\* the place of a node's kind in the order the builder pushes arms
ArmRank(t) ==
    CASE t.tag \in {"ArrayList", "ArrayTuple"} -> 1
      [] t.tag = "Object" -> 2
      [] t.tag \in {"Integer", "Number"} -> 3
      [] t.tag = "String" -> 4
      [] t.tag = "Bool" -> 5
      [] OTHER -> 0

\* C12: in every IR built from a reachable U no OneOf holds a Null arm, every
\* OneOf has at least two arms in the order array, object, number, string,
\* bool, and every Nullable wraps a node that is neither Null nor Nullable,
\* so that schema_from_norm does not meet an inner schema that is exactly
\* null.
C12_UnionShape ==
    \A t \in ReachedNodes :
        /\ t.tag = "OneOf" =>
              /\ Len(t.arms) >= 2
              /\ \A i \in 1..Len(t.arms) : ArmRank(t.arms[i]) >= 1
              /\ \A i \in 1..(Len(t.arms) - 1) : ArmRank(t.arms[i]) < ArmRank(t.arms[i + 1])
        /\ t.tag = "Nullable" =>
              /\ t.inner.tag \notin {"Null", "Nullable"}
              /\ schema_from_norm(t.inner) # [type |-> "null"]
              /\ schema_from_norm(t) = [oneOf |-> <<schema_from_norm(t.inner), [type |-> "null"]>>]

\* null, a number and a string were observed at one node: a Nullable around
\* a OneOf
C12_Witness ==
    \E t \in ReachedNodes :
        /\ t.tag = "Nullable"
        /\ t.inner.tag = "OneOf"
        /\ Len(t.inner.arms) = 2
        /\ t.inner.arms[1].tag = "Integer"
        /\ t.inner.arms[2].tag = "String"

StringArms(t) == {a \in ArmsOf(t) : a.tag = "String"}

\* the strings among the documents of e, and among the elements of its arrays
RootStrings(e) == {d.s : d \in {v \in Docs(e) : v.k = "str"}}
ElementStrings(e) ==
    UNION {{d.xs[i].s : i \in {j \in 1..Len(d.xs) : d.xs[j].k = "str"}} : d \in ArrayDocs(e)}
StringsAt(e, i) ==
    {d.xs[i].s : d \in {v \in ArrayDocs(e) : Len(v.xs) >= i /\ v.xs[i].k = "str"}}

\* C13: a String node has format_uri only if every string observed at that
\* node looks like a URI; checked at the root, at the pooled item of a list
\* and at each position of a tuple, literal-cap overflow included.
C13_FormatUriOnlyIfAllUri ==
    \A e \in Entries :
        LET n == normalize_to_norm_consume(e.u)
        IN  /\ \A a \in StringArms(n) :
                  a.format_uri => \A s \in RootStrings(e) : looks_like_uri(s)
            /\ (IsSome(e.u.str_) /\ Unwrap(normalize(e.u).str_).is_uri) =>
                  \A s \in RootStrings(e) : looks_like_uri(s)
            /\ \A arr \in ArrayArms(n) :
                  IF arr.tag = "ArrayList"
                  THEN \A a \in StringArms(arr.item) :
                          a.format_uri => \A s \in ElementStrings(e) : looks_like_uri(s)
                  ELSE \A i \in 1..Len(arr.elems) : \A a \in StringArms(arr.elems[i]) :
                          a.format_uri => \A s \in StringsAt(e, i) : looks_like_uri(s)

\* a node that saw only URI strings carries format_uri, and a partial
\* result whose item literals overflowed the cap, a URI among them, does not
C13_Witness ==
    /\ \E e \in Entries : \E arr \in ArrayArms(normalize_to_norm_consume(e.u)) :
          /\ ElementStrings(e) = {S_tel}
          /\ arr.tag = "ArrayList"
          /\ \E a \in StringArms(arr.item) : a.format_uri
    /\ \E e \in Entries : \E arr \in ArrayArms(normalize_to_norm_consume(e.u)) :
          /\ BulkDoc \in Docs(e)
          /\ S_tel \in ElementStrings(e)
          /\ arr.tag = "ArrayList"
          /\ \E a \in StringArms(arr.item) : ~a.format_uri

\* every node of a U, the root included
RECURSIVE UNodes(_)
UNodes(u) ==
    {u}
    \cup (IF IsSome(u.arr)
          THEN LET a == Unwrap(u.arr)
               IN  UNodes(a.item) \cup UNION {UNodes(a.cols[i]) : i \in 1..Len(a.cols)}
          ELSE {})
    \cup (IF IsSome(u.obj)
          THEN LET o == Unwrap(u.obj)
               IN  UNION {UNodes(o.fields[k].ty) : k \in DOMAIN o.fields}
          ELSE {})

ReachedUNodes == UNION {UNodes(u) : u \in Reached}

IsSortedStrs(q) == \A i \in 1..(Len(q) - 1) : StrLess(q[i], q[i + 1])

\* C14: the String arm built from a string constraint follows the
\* precedence tiny enum, then URI, then pattern attempt, then plain string;
\* with ENABLE_STRING_ENUMS off no String node has a non-empty enum and with
\* ENABLE_GREX off no String node has a pattern.
C14_StringPolicyPrecedence ==
    /\ \A w \in ReachedUNodes :
          IsSome(w.str_) =>
            LET c == Unwrap(w.str_)
                arms == StringArms(normalize_to_norm_consume(w))
                tiny == /\ ENABLE_STRING_ENUMS
                        /\ Cardinality(c.lits) <= 8
                        /\ \A x \in c.lits : Len(x) <= 16 /\ looks_humanish(x)
            IN  /\ Cardinality(arms) = 1
                /\ \A a \in arms :
                      IF tiny
                      THEN /\ {a.enum_[i] : i \in 1..Len(a.enum_)} = c.lits
                           /\ Len(a.enum_) = Cardinality(c.lits)
                           /\ IsSortedStrs(a.enum_)
                           /\ a.pattern = None
                      ELSE IF c.is_uri
                      THEN a.enum_ = <<>> /\ a.format_uri /\ a.pattern = None
                      ELSE IF ENABLE_GREX
                      THEN /\ a.enum_ = <<>>
                           /\ ~a.format_uri
                           /\ a.pattern = synth_regex_with_grex(c.lits)
                      ELSE a.enum_ = <<>> /\ ~a.format_uri /\ a.pattern = None
    /\ \A t \in ReachedNodes :
          t.tag = "String" =>
            /\ ~ENABLE_STRING_ENUMS => t.enum_ = <<>>
            /\ ~ENABLE_GREX => t.pattern = None

\* with both flags on, an enum, a URI string and a pattern have been built
C14_Witness ==
    /\ ENABLE_STRING_ENUMS
    /\ ENABLE_GREX
    /\ \E t \in ReachedNodes : t.tag = "String" /\ Len(t.enum_) >= 2 /\ IsNone(t.pattern)
    /\ \E t \in ReachedNodes : t.tag = "String" /\ t.format_uri /\ t.enum_ = <<>>
    /\ \E t \in ReachedNodes : t.tag = "String" /\ IsSome(t.pattern) /\ t.enum_ = <<>>

NumArms(t) == {a \in ArmsOf(t) : a.tag \in {"Integer", "Number"}}
RootNumbers(e) == {d \in Docs(e) : d.k = "num"}

\* C15: a numeric node is Integer exactly when no float-typed number was
\* observed at it and its smallest and largest observed values are whole;
\* otherwise it is Number; an integer-only corpus is emitted as "integer".
C15_IntegerIffNoFloatAndWholeBounds ==
    /\ \A e \in Entries :
          RootNumbers(e) # {} =>
            LET n == normalize_to_norm_consume(e.u)
                vals == {d.val : d \in RootNumbers(e)}
                lo == CHOOSE x \in vals : \A y \in vals : x <= y
                hi == CHOOSE x \in vals : \A y \in vals : y <= x
                whole == /\ \A d \in RootNumbers(e) : d.repr # "f64"
                         /\ IsIntegral(lo)
                         /\ IsIntegral(hi)
            IN  /\ Cardinality(NumArms(n)) = 1
                /\ \A a \in NumArms(n) : (a.tag = "Integer") <=> whole
                /\ (\A d \in Docs(e) : d.k = "num" /\ d.repr # "f64") =>
                      schema_from_norm(n).type = "integer"
    /\ \A w \in ReachedUNodes :
          IsSome(w.num) =>
            LET c == Unwrap(w.num)
            IN  \A a \in NumArms(normalize_to_norm_consume(w)) :
                  (a.tag = "Integer") <=>
                      (~c.saw_float /\ IsIntegral(c.min_f64) /\ IsIntegral(c.max_f64))

\* an integer and the float-typed whole number 2.0 observed at one node give
\* Number, while an integer alone gives Integer
C15_Witness ==
    /\ \E e \in Entries :
          /\ RootNumbers(e) = {VInt(1), VFloat(4)}
          /\ \E a \in NumArms(normalize_to_norm_consume(e.u)) : a.tag = "Number"
    /\ \E e \in Entries :
          /\ RootNumbers(e) = {VInt(1)}
          /\ \E a \in NumArms(normalize_to_norm_consume(e.u)) : a.tag = "Integer"

ElementNumbers(e) ==
    UNION {{d.xs[i] : i \in {j \in 1..Len(d.xs) : d.xs[j].k = "num"}} : d \in ArrayDocs(e)}
MinVal(ns) == CHOOSE x \in {d.val : d \in ns} : \A d \in ns : x <= d.val
MaxVal(ns) == CHOOSE x \in {d.val : d \in ns} : \A d \in ns : d.val <= x

\* C16: after normalize every number node of the tree has an empty literal
\* set, and min and max are still the smallest and largest numbers observed
\* at the node (checked at the root and at the pooled array item).
C16_NormalizeDropsNumLits ==
    \A e \in Entries :
        LET n == normalize(e.u)
        IN  /\ \A w \in UNodes(n) : IsSome(w.num) => Unwrap(w.num).lits_f64 = {}
            /\ IsSome(n.num) <=> RootNumbers(e) # {}
            /\ RootNumbers(e) # {} =>
                  /\ Unwrap(n.num).min_f64 = MinVal(RootNumbers(e))
                  /\ Unwrap(n.num).max_f64 = MaxVal(RootNumbers(e))
            /\ ElementNumbers(e) # {} =>
                  LET item == Unwrap(n.arr).item
                  IN  /\ IsSome(item.num)
                      /\ Unwrap(item.num).min_f64 = MinVal(ElementNumbers(e))
                      /\ Unwrap(item.num).max_f64 = MaxVal(ElementNumbers(e))

\* three different numbers were observed at the root, their literals were
\* held before normalize and are gone after it
C16_Witness ==
    \E e \in Entries :
        /\ RootNumbers(e) = {VInt(1), VFloat(3), VFloat(4)}
        /\ Cardinality(Unwrap(e.u.num).lits_f64) = 3
        /\ Unwrap(normalize(e.u).num).lits_f64 = {}
        /\ Unwrap(normalize(e.u).num).min_f64 < Unwrap(normalize(e.u).num).max_f64

\* the nodes of every U reached and of every observation folded so far
AllUNodes == ReachedUNodes \cup UNION {UNodes(observe_value(v)) : v \in AllDocs}

\* C17: in every U built by observe and join, at every depth, a string
\* literal set has at most MAX_STR_LITS elements and a numeric literal set
\* at most MAX_NUM_LITS.
C17_LiteralSetsCapped ==
    \A w \in AllUNodes :
        /\ IsSome(w.str_) => Cardinality(Unwrap(w.str_).lits) <= MAX_STR_LITS
        /\ IsSome(w.num) => Cardinality(Unwrap(w.num).lits_f64) <= MAX_NUM_LITS

\* both kinds of literal set were at their cap in an observation, and one
\* partial result saw a 65th string and a 65th number and holds no literals
C17_Witness ==
    /\ \E w \in AllUNodes :
          IsSome(w.str_) /\ Cardinality(Unwrap(w.str_).lits) = MAX_STR_LITS
    /\ \E w \in AllUNodes :
          IsSome(w.num) /\ Cardinality(Unwrap(w.num).lits_f64) = MAX_NUM_LITS
    /\ \E e \in Entries :
          /\ Cardinality(ElementStrings(e)) > MAX_STR_LITS
          /\ Unwrap(Unwrap(e.u.arr).item.str_).lits = {}
          /\ Cardinality(ElementNumbers(e)) > MAX_NUM_LITS
          /\ Unwrap(Unwrap(e.u.arr).item.num).lits_f64 = {}

\* C18: at every document boundary the state of the Inference is the fold
\* of the values fed so far, whatever solve calls came before, and every
\* solve returned what observing the values fed before it and solving once
\* returns.
C18_SolveLeavesStateUnchanged ==
    /\ inf = FoldObserve(U_empty, fed)
    /\ \A i \in 1..Len(results) :
          results[i].u = infer_from_values(SubSeq(fed, 1, results[i].at))

\* observe, solve, observe, solve: the second solve saw more values than
\* the first, and the first had already normalized something away
C18_Witness ==
    /\ Len(results) = 2
    /\ 0 < results[1].at
    /\ results[1].at < results[2].at
    /\ results[2].at = Len(fed)
    /\ results[1].u # FoldObserve(U_empty, SubSeq(fed, 1, results[1].at))

ViolatesNumberContract(v) == v.k = "num" /\ v.repr = "none"

CountDocs(e, ds) == BagCardinality([v \in ds |-> e.docs[v]])

\* the join of a set of observations of scalars, taken one after the other
RECURSIVE JoinAll(_, _)
JoinAll(acc, obs) ==
    IF obs = {} THEN acc
    ELSE LET o == CHOOSE x \in obs : TRUE
             nxt == join(acc, o)
         IN  IF nxt.nullable \in BOOLEAN THEN JoinAll(nxt, obs \ {o}) ELSE nxt

ElementObservations(e) ==
    UNION {{observe_value(d.xs[i]) : i \in 1..Len(d.xs)} : d \in ArrayDocs(e)}

\* the array counts of a partial result are those of the arrays it covers
ArrayCountsExact(e) ==
    LET a == Unwrap(e.u.arr)
    IN  /\ a.samples = NumArrayDocs(e)
        /\ a.len_min = MinLength(e)
        /\ a.len_max = MaxLength(e)
        /\ Len(a.present) = MaxLength(e)
        /\ Len(a.non_null) = MaxLength(e)
        /\ \A i \in 1..MaxLength(e) :
              /\ a.present[i] = CountDocs(e, {d \in ArrayDocs(e) : Len(d.xs) >= i})
              /\ a.non_null[i] =
                    CountDocs(e, {d \in ArrayDocs(e) : Len(d.xs) >= i /\ ~IsNullValue(d.xs[i])})

\* the object counts of a partial result are those of the objects it covers
ObjectCountsExact(e) ==
    LET o == Unwrap(e.u.obj)
    IN  /\ o.seen_objects = NumObjectDocs(e)
        /\ DOMAIN o.fields = UNION {DOMAIN d.m : d \in ObjectDocs(e)}
        /\ \A k \in DOMAIN o.fields :
              /\ o.fields[k].present_in =
                    CountDocs(e, {d \in ObjectDocs(e) : k \in DOMAIN d.m})
              /\ o.fields[k].non_null_in =
                    CountDocs(e, {d \in ObjectDocs(e) : k \in DOMAIN d.m /\ ~IsNullValue(d.m[k])})

\* the pooled item of a partial result is the join of every element of the
\* arrays it covers, read up to normalization (the raw lcp field of a string
\* constraint depends on the order of the joins even below the cap)
ItemIsJoinOfElements(e) ==
    SameNormalized(Unwrap(e.u.arr).item, JoinAll(U_empty, ElementObservations(e)))

\* C20: after folding any arrays (objects) at a node in any order, the array
\* evidence holds the exact counts and item is the join of all elements of
\* all arrays; the object evidence holds the exact counts.
C20_EvidenceExact ==
    \A e \in Entries :
        /\ IsSome(e.u.arr) <=> ArrayDocs(e) # {}
        /\ IsSome(e.u.obj) <=> ObjectDocs(e) # {}
        /\ ArrayDocs(e) # {} => ArrayCountsExact(e) /\ ItemIsJoinOfElements(e)
        /\ ObjectDocs(e) # {} => ObjectCountsExact(e)

\* the array evidence records of every U reached, at every depth
ReachedArrays == {Unwrap(w.arr) : w \in {x \in ReachedUNodes : IsSome(x.arr)}}

\* C21: column i of an array evidence record is nullable exactly when some
\* contributing array had null at position i or was too short to have it
\* (non_null[i] < samples); in a tuple result such a position is nullable.
C21_ColumnNullableIffNullOrMissing ==
    /\ \A a \in ReachedArrays :
          \A i \in 1..Len(a.cols) : a.cols[i].nullable <=> a.non_null[i] < a.samples
    /\ \A e \in Entries :
          ArrayDocs(e) # {} =>
            LET a == Unwrap(e.u.arr)
                NullOrMissing(i) ==
                    \E d \in ArrayDocs(e) : Len(d.xs) < i \/ IsNullValue(d.xs[i])
            IN  /\ \A i \in 1..Len(a.cols) : a.cols[i].nullable <=> NullOrMissing(i)
                /\ \A t \in ArrayArms(normalize_to_norm_consume(e.u)) :
                      t.tag = "ArrayTuple" =>
                        \A i \in 1..Len(t.elems) :
                            NullOrMissing(i) => t.elems[i].tag \in {"Nullable", "Null"}

\* a tuple was built from arrays of lengths 2 and 3: its third position is
\* missing from one array and nullable, its first is in both and is not
C21_Witness ==
    \E e \in Entries : \E t \in ArrayArms(normalize_to_norm_consume(e.u)) :
        /\ Lengths(e) = {2, 3}
        /\ t.tag = "ArrayTuple"
        /\ Len(t.elems) = 3
        /\ t.elems[3].tag = "Nullable"
        /\ t.elems[1].tag # "Nullable"
        /\ \A d \in ArrayDocs(e) : Len(d.xs) < 3 \/ ~IsNullValue(d.xs[3])

SeqRange(q) == {q[i] : i \in 1..Len(q)}

\* an enum of the String arms of t, if any, lists every string of obs
EnumCovers(t, obs) ==
    \A a \in StringArms(t) : a.enum_ # <<>> => obs \subseteq SeqRange(a.enum_)

\* the enum or prefix pattern emit_schema writes for a normalized string
\* constraint covers every string of obs
LegacyCovers(u, obs) ==
    IsSome(u.str_) =>
        LET c == Unwrap(u.str_)
        IN  IF c.lits # {} THEN obs \subseteq c.lits
            ELSE (IsSome(c.lcp) /\ Len(Unwrap(c.lcp)) >= LCP_MIN_FOR_PATTERN) =>
                    \A x \in obs : starts_with(x, Unwrap(c.lcp))

\* C22: a String node emitted with a non-empty enum lists every string
\* observed at the node, and a prefix pattern matches every one of them,
\* also after the literal set overflowed its cap and later strings arrived.
C22_EnumCoversObserved ==
    \A e \in Entries :
        LET n == normalize_to_norm_consume(e.u)
            l == normalize(e.u)
        IN  /\ EnumCovers(n, RootStrings(e))
            /\ LegacyCovers(l, RootStrings(e))
            /\ ArrayDocs(e) # {} => LegacyCovers(Unwrap(l.arr).item, ElementStrings(e))
            /\ \A arr \in ArrayArms(n) :
                  IF arr.tag = "ArrayList"
                  THEN EnumCovers(arr.item, ElementStrings(e))
                  ELSE \A i \in 1..Len(arr.elems) : EnumCovers(arr.elems[i], StringsAt(e, i))

\* what infer_from_values returns for each document observed so far alone,
\* and for the documents the sequential driver has folded
Summaries == {infer_from_values(<<v>>) : v \in AllDocs} \cup {normalize(inf)}

\* C23: join of summaries returned by infer_from_values is associative at
\* the level of the emitted schema, without normalizing again.
C23_JoinAssociativeOnSummaries ==
    \A ua \in Summaries : \A ub \in Summaries : \A uc \in Summaries :
        emit_schema(join(join(ua, ub), uc)) = emit_schema(join(ua, join(ub, uc)))

FedStrings == {fed[i].s : i \in {j \in 1..Len(fed) : fed[j].k = "str"}}

\* the longest common prefix of a non-empty set of strings
LongestCommonPrefix(strs) ==
    LET s0 == CHOOSE x \in strs : TRUE
        k == CHOOSE n \in 0..Len(s0) :
                /\ \A x \in strs : starts_with(x, SubSeq(s0, 1, n))
                /\ \A m \in (n + 1)..Len(s0) :
                      \E x \in strs : ~starts_with(x, SubSeq(s0, 1, m))
    IN  SubSeq(s0, 1, k)

\* C24: for a corpus of at least two strings that share a prefix of at least
\* 3 characters infer_from_values returns an empty literal set and the
\* longest common prefix of all of them as lcp; for at most 8 short humanish
\* strings without such a prefix it keeps the literal set.
C24_TokensBecomePrefix ==
    (fed # <<>> /\ \A i \in 1..Len(fed) : fed[i].k = "str") =>
        LET c == Unwrap(infer_from_values(fed).str_)
            p == LongestCommonPrefix(FedStrings)
        IN  /\ (Len(fed) >= 2 /\ Len(p) >= 3) =>
                  c.lits = {} /\ c.lcp = Some(p)
            /\ (/\ Len(p) < 3
                 /\ Cardinality(FedStrings) <= 8
                 /\ \A x \in FedStrings : Len(x) <= 16 /\ looks_humanish(x)) =>
                  c.lits = FedStrings

\* C25: normalize is idempotent at the level of the emitted schema, for
\* every reachable u.
C25_NormalizeIdempotent ==
    \A u \in Reached : emit_schema(normalize(normalize(u))) = emit_schema(normalize(u))

\* C26: once the parallel reduce has combined every document into one
\* result, compute_merge_summary returns with --no-parallel the summary, and
\* so the schema, it returns without it.
C26_NoParallelSameSummary ==
    \A e \in Entries :
        (BagCardinality(pool) = 1 /\ e.docs # EmptyBag) =>
            /\ summary_no_parallel(inf) = summary_parallel(e.u)
            /\ emit_schema(summary_no_parallel(inf)) = emit_schema(summary_parallel(e.u))

\* the integers of the corpus, as integers
FedIntegers == {fed[i].val \div 2 : i \in {j \in 1..Len(fed) : fed[j].k = "num"}}

\* C27: for a corpus of integers the Integer node's min and max are the
\* smallest and largest observed integers, so every observed value lies in
\* [min, max], integers above the signed 64-bit maximum included.
C27_IntegerBoundsAreObserved ==
    (fed # <<>> /\ \A i \in 1..Len(fed) : fed[i].k = "num") =>
        LET n == normalize_to_norm_consume(inf)
        IN  /\ n.tag = "Integer"
            /\ \A x \in FedIntegers : Unwrap(n.min) <= x /\ x <= Unwrap(n.max)
            /\ Unwrap(n.min) \in FedIntegers
            /\ Unwrap(n.max) \in FedIntegers

\* the array evidence records built by observe and join: those reached and
\* those of every single observation, at every depth
AllArrays == {Unwrap(w.arr) : w \in {x \in AllUNodes : IsSome(x.arr)}}

\* C28: in every array evidence record built by observe and join, cols,
\* present and non_null have length len_max, non_null[i] <= present[i] <=
\* samples, present is non-increasing in i, and tuple_min_items_arr gives
\* len_min.
C28_ArrayRecordShape ==
    \A a \in AllArrays :
        /\ Len(a.cols) = a.len_max
        /\ Len(a.present) = a.len_max
        /\ Len(a.non_null) = a.len_max
        /\ \A i \in 1..a.len_max :
              a.non_null[i] <= a.present[i] /\ a.present[i] <= a.samples
        /\ \A i \in 1..(a.len_max - 1) : a.present[i] >= a.present[i + 1]
        /\ tuple_min_items_arr(a) = a.len_min

C28_Witness ==
    \E a \in ReachedArrays :
        /\ a.samples >= 3
        /\ 0 < a.len_min /\ a.len_min < a.len_max
        /\ \E i \in 1..a.len_max : a.non_null[i] < a.present[i]
        /\ \E i \in 1..(a.len_max - 1) : a.present[i] > a.present[i + 1]
        /\ a.present[a.len_max] < a.samples

\* C29: in every IR built from a reachable U a field marked required has a
\* type that is neither Null nor Nullable, and no object observed at the
\* root held null for it.
C29_RequiredNeverNull ==
    /\ \A t \in ReachedNodes :
          t.tag = "Object" =>
            \A i \in 1..Len(t.fields) :
               t.fields[i].required => t.fields[i].ty.tag \notin {"Null", "Nullable"}
    /\ \A e \in Entries :
          \A o \in ObjectArms(normalize_to_norm_consume(e.u)) :
             \A i \in 1..Len(o.fields) :
                o.fields[i].required =>
                   \A d \in ObjectDocs(e) :
                      o.fields[i].name \in DOMAIN d.m => ~IsNullValue(d.m[o.fields[i].name])

\* objects were joined: one field is required, another saw a null and is
\* Nullable and not required
C29_Witness ==
    \E e \in Entries :
        /\ NumObjectDocs(e) >= 2
        /\ \E o \in ObjectArms(normalize_to_norm_consume(e.u)) :
              \E i, j \in 1..Len(o.fields) :
                 /\ o.fields[i].required
                 /\ o.fields[i].ty.tag \notin {"Null", "Nullable"}
                 /\ ~o.fields[j].required
                 /\ o.fields[j].ty.tag = "Nullable"
                 /\ \E d \in ObjectDocs(e) :
                       /\ o.fields[j].name \in DOMAIN d.m
                       /\ IsNullValue(d.m[o.fields[j].name])

\* the array nodes of a Ty tree, each with the path that leads to it and the
\* policy applied to it; Nullable and OneOf do not extend the path
RECURSIVE ArrayPolicies(_, _)
ArrayPolicies(t, path) ==
    CASE t.tag = "Nullable" -> ArrayPolicies(t.inner, path)
      [] t.tag = "OneOf" -> UNION {ArrayPolicies(t.arms[i], path) : i \in 1..Len(t.arms)}
      [] t.tag = "ArrayList" ->
            {[path |-> path, kind |-> "list", count |-> 1,
              min_items |-> t.min_items, max_items |-> t.max_items]}
            \cup ArrayPolicies(t.item, Append(path, "item"))
      [] t.tag = "ArrayTuple" ->
            {[path |-> path, kind |-> "tuple", count |-> Len(t.elems),
              min_items |-> Some(t.min_items), max_items |-> Some(t.max_items)]}
            \cup UNION {ArrayPolicies(t.elems[i], Append(path, i)) : i \in 1..Len(t.elems)}
      [] t.tag = "Object" ->
            UNION {ArrayPolicies(t.fields[i].ty, Append(path, t.fields[i].name)) :
                      i \in 1..Len(t.fields)}
      [] OTHER -> {}

\* C30: for every reachable U the recurse-first pipeline (normalize, then
\* lower_to_ir) and the decide-first pipeline (normalize_and_lower) find
\* the same array nodes and give each the same kind (tuple or list), the
\* same element count and the same min_items and max_items.
C30_PipelinesSameArrayPolicy ==
    \A u \in Reached :
        ArrayPolicies(normalize_then_lower(u), <<>>)
            = ArrayPolicies(normalize_and_lower(u), <<>>)

====
